---------------------------- MODULE Spec2Model ----------------------------
(***************************************************************************)
(* Model of packages/utils/src/assertions.js (lighthouse-ci): the          *)
(* assertion evaluator that turns a batch of Lighthouse reports and an     *)
(* assertion configuration into a list of AssertionResults.                *)
(*                                                                         *)
(* Conventions of the model                                                *)
(*  - a JavaScript value that may be `undefined` is a set with at most one *)
(*    element: None is {} and Some(x) is {x};                              *)
(*  - numbers are integers; scores are carried in hundredths (ScoreOne is  *)
(*    the score 1), and every measured value of the input sets is even, so *)
(*    that the median's division by two is exact;                          *)
(*  - a function that may throw returns [err, res]: err is "" when it      *)
(*    returns normally, and the message's tag when it throws.              *)
(***************************************************************************)
EXTENDS Integers, Sequences, FiniteSets, TLC

VARIABLES
    pc,     \* position of the call being exercised
    args,   \* the arguments of the entry point being exercised
    ret,    \* the AssertionResults accumulated (`results`), returned at "done"
    threw,  \* "" or the message of the exception the call raised
    groupedByURL,    \* getAllAssertionResults: the reports grouped by finalUrl
    arrayOfOptions,  \* getAllAssertionResults: the configurations to evaluate
    gi,     \* index in groupedByURL of the group being evaluated
    oi,     \* index in arrayOfOptions of the configuration being evaluated
    ai,     \* index in auditsToAssert of the audit being asserted
    resolved,  \* what resolveAssertionOptionsAndLhrs returned for (gi, oi)
    step    \* the locals of the last iteration of the loop over auditsToAssert

locals == <<groupedByURL, arrayOfOptions, gi, oi, ai, resolved, step>>
vars == <<pc, args, ret, threw, locals>>

(***************************************************************************)
(* Optional values.                                                        *)
(***************************************************************************)
None == {}
Some(x) == {x}
Get(o) == CHOOSE x \in o : TRUE

\* The score 1 in the model's hundredths.
ScoreOne == 100

\* An audit result; a property the JavaScript object lacks is None.
Audit(s, mode, n, d) ==
    [score |-> s, scoreDisplayMode |-> mode, numericValue |-> n, details |-> d]

\* details of an audit result holding the items `it`.
Items(it) == Some([items |-> Some(it)])

(***************************************************************************)
(* Generic sequence helpers (Array.prototype.map / filter / concat).       *)
(***************************************************************************)
Map(Op(_), s) == [i \in 1..Len(s) |-> Op(s[i])]

RECURSIVE Flatten(_)
Flatten(ss) == IF ss = <<>> THEN <<>> ELSE Head(ss) \o Flatten(Tail(ss))

Range(s) == {s[i] : i \in 1..Len(s)}

(***************************************************************************)
(* AUDIT_TYPE_VALUE_GETTERS: the value of one audit result for a kind, or  *)
(* None when the audit result has none.                                    *)
(***************************************************************************)
minScoreGetter(result) ==
    IF result.score # None THEN result.score
    ELSE IF result.scoreDisplayMode = Some("notApplicable") THEN Some(ScoreOne)
    ELSE IF result.scoreDisplayMode = Some("informative") THEN Some(0)
    ELSE None

maxLengthGetter(result) ==
    IF result.details = None THEN None
    ELSE IF Get(result.details).items = None THEN None
    ELSE Some(Len(Get(Get(result.details).items)))

maxNumericValueGetter(result) == result.numericValue

AUDIT_TYPE_VALUE_GETTERS(assertionType, result) ==
    CASE assertionType = "minScore" -> minScoreGetter(result)
      [] assertionType = "maxLength" -> maxLengthGetter(result)
      [] assertionType = "maxNumericValue" -> maxNumericValueGetter(result)

(***************************************************************************)
(* AUDIT_TYPE_OPERATORS: operator symbol and pass predicate of a kind.     *)
(***************************************************************************)
operatorOf(assertionType) ==
    CASE assertionType = "auditRan" -> "=="
      [] assertionType = "minScore" -> ">="
      [] assertionType = "maxLength" -> "<="
      [] assertionType = "maxNumericValue" -> "<="

passesFn(assertionType, actual, expected) ==
    CASE assertionType = "auditRan" -> actual = expected
      [] assertionType = "minScore" -> actual >= expected
      [] assertionType = "maxLength" -> actual <= expected
      [] assertionType = "maxNumericValue" -> actual <= expected

isFiniteNumber(x) == x # None

(***************************************************************************)
(* getValueForAggregationMethod                                            *)
(***************************************************************************)
RECURSIVE Insert(_, _)
Insert(x, s) ==
    IF s = <<>> THEN <<x>>
    ELSE IF x <= Head(s) THEN <<x>> \o s
    ELSE <<Head(s)>> \o Insert(x, Tail(s))

\* values.slice().sort((a, b) => a - b)
RECURSIVE SortAscending(_)
SortAscending(s) == IF s = <<>> THEN <<>> ELSE Insert(Head(s), SortAscending(Tail(s)))

RECURSIVE MathMin(_)
MathMin(s) ==
    IF Len(s) = 1 THEN s[1]
    ELSE LET m == MathMin(Tail(s)) IN IF s[1] < m THEN s[1] ELSE m

RECURSIVE MathMax(_)
MathMax(s) ==
    IF Len(s) = 1 THEN s[1]
    ELSE LET m == MathMax(Tail(s)) IN IF s[1] > m THEN s[1] ELSE m

\* String.prototype.startsWith on the assertion kinds.
startsWith(assertionType, prefix) ==
    CASE prefix = "max" -> assertionType \in {"maxLength", "maxNumericValue"}
      [] prefix = "min" -> assertionType = "minScore"

getValueForAggregationMethod_flipped(values, aggregationMethod, assertionType) ==
    IF aggregationMethod = "median"
    THEN LET medianIndex == (Len(values) - 1) \div 2
             sorted == SortAscending(values)
         IN  IF Len(values) % 2 = 1 THEN sorted[medianIndex + 1]
             ELSE (sorted[medianIndex + 1] + sorted[medianIndex + 2]) \div 2
    ELSE LET useMin ==
                 \/ aggregationMethod = "optimistic" /\ startsWith(assertionType, "min")
                 \/ aggregationMethod = "pessimistic" /\ startsWith(assertionType, "max")
         IN  IF useMin THEN MathMin(values) ELSE MathMax(values)

getValueForAggregationMethod(values, aggregationMethod, assertionType) ==
    IF aggregationMethod = "median"
    THEN LET medianIndex == (Len(values) - 1) \div 2
             sorted == SortAscending(values)
         IN  IF Len(values) % 2 = 1 THEN sorted[medianIndex + 1]
             ELSE (sorted[medianIndex + 1] + sorted[medianIndex + 2]) \div 2
    ELSE LET useMin ==
                 \/ aggregationMethod = "optimistic" /\ startsWith(assertionType, "max")
                 \/ aggregationMethod = "pessimistic" /\ startsWith(assertionType, "min")
         IN  IF useMin THEN MathMin(values) ELSE MathMax(values)

(***************************************************************************)
(* getAssertionResult                                                      *)
(***************************************************************************)
RECURSIVE FilterFinite(_)
FilterFinite(values) ==
    IF values = <<>> THEN <<>>
    ELSE IF isFiniteNumber(Head(values))
         THEN <<Get(Head(values))>> \o FilterFinite(Tail(values))
         ELSE FilterFinite(Tail(values))

\* getAssertionResult reporting the aggregate alone as the violation's values.
getAssertionResult_aggregateOnly(auditResults, aggregationMethod, assertionType, expectedValue) ==
    LET getter(result) == AUDIT_TYPE_VALUE_GETTERS(assertionType, result)
        values == Map(getter, auditResults)
        filteredValues == FilterFinite(values)
    IN  IF \/ Len(filteredValues) = 0 /\ aggregationMethod # "pessimistic"
           \/ Len(filteredValues) # Len(values) /\ aggregationMethod = "pessimistic"
        THEN LET ran(value) == IF isFiniteNumber(value) THEN 1 ELSE 0
                 didRun == Map(ran, values)
             IN  << [name |-> "auditRan", expected |-> 1, actual |-> 0,
                     values |-> didRun, operator |-> "=="] >>
        ELSE LET actualValue ==
                     getValueForAggregationMethod(filteredValues, aggregationMethod,
                                                  assertionType)
             IN  IF passesFn(assertionType, actualValue, expectedValue) THEN <<>>
                 ELSE << [name |-> assertionType, expected |-> expectedValue,
                          actual |-> actualValue, values |-> <<actualValue>>,
                          operator |-> operatorOf(assertionType)] >>

\* getAssertionResult demanding a value from every report in every mode.
getAssertionResult_strict(auditResults, aggregationMethod, assertionType, expectedValue) ==
    LET getter(result) == AUDIT_TYPE_VALUE_GETTERS(assertionType, result)
        values == Map(getter, auditResults)
        filteredValues == FilterFinite(values)
    IN  IF Len(filteredValues) # Len(values)
        THEN LET ran(value) == IF isFiniteNumber(value) THEN 1 ELSE 0
                 didRun == Map(ran, values)
             IN  << [name |-> "auditRan", expected |-> 1, actual |-> 0,
                     values |-> didRun, operator |-> "=="] >>
        ELSE LET actualValue ==
                     getValueForAggregationMethod(filteredValues, aggregationMethod,
                                                  assertionType)
             IN  IF passesFn(assertionType, actualValue, expectedValue) THEN <<>>
                 ELSE << [name |-> assertionType, expected |-> expectedValue,
                          actual |-> actualValue, values |-> filteredValues,
                          operator |-> operatorOf(assertionType)] >>

getAssertionResult(auditResults, aggregationMethod, assertionType, expectedValue) ==
    LET getter(result) == AUDIT_TYPE_VALUE_GETTERS(assertionType, result)
        values == Map(getter, auditResults)
        filteredValues == FilterFinite(values)
    IN  IF \/ Len(filteredValues) = 0 /\ aggregationMethod # "pessimistic"
           \/ Len(filteredValues) # Len(values) /\ aggregationMethod = "pessimistic"
        THEN LET ran(value) == IF isFiniteNumber(value) THEN 1 ELSE 0
                 didRun == Map(ran, values)
             IN  << [name |-> "auditRan", expected |-> 1, actual |-> 0,
                     values |-> didRun, operator |-> "=="] >>
        ELSE LET actualValue ==
                     getValueForAggregationMethod(filteredValues, aggregationMethod,
                                                  assertionType)
             IN  IF passesFn(assertionType, actualValue, expectedValue) THEN <<>>
                 ELSE << [name |-> assertionType, expected |-> expectedValue,
                          actual |-> actualValue, values |-> filteredValues,
                          operator |-> operatorOf(assertionType)] >>

(***************************************************************************)
(* getAssertionResults: per-audit assembly.  options is a record of the    *)
(* optional fields minScore, maxLength, maxNumericValue, aggregationMethod.*)
(***************************************************************************)
\* const {aggregationMethod = 'optimistic'} = options
methodOrDefault(options) ==
    IF options.aggregationMethod = None THEN "optimistic"
    ELSE Get(options.aggregationMethod)

\* getAssertionResults with the default minScore applied whenever minScore is
\* unset, manual assertion or not.
getAssertionResults_alwaysDefault(possibleAuditResults, options) ==
    LET aggregationMethod == methodOrDefault(options)
        ran(result) == IF result = None THEN 0 ELSE 1
    IN  IF \E i \in 1..Len(possibleAuditResults) : possibleAuditResults[i] = None
        THEN << [name |-> "auditRan", expected |-> 1, actual |-> 0,
                 values |-> Map(ran, possibleAuditResults), operator |-> ">="] >>
        ELSE LET auditResults == Map(Get, possibleAuditResults)
                 forMaxLength ==
                     IF options.maxLength # None
                     THEN getAssertionResult(auditResults, aggregationMethod,
                                             "maxLength", Get(options.maxLength))
                     ELSE <<>>
                 forMaxNumericValue ==
                     IF options.maxNumericValue # None
                     THEN getAssertionResult(auditResults, aggregationMethod,
                                             "maxNumericValue",
                                             Get(options.maxNumericValue))
                     ELSE <<>>
                 realMinScore ==
                     IF options.minScore = None THEN Some(ScoreOne) ELSE options.minScore
             IN  forMaxLength \o forMaxNumericValue
                 \o getAssertionResult(auditResults, aggregationMethod,
                                       "minScore", Get(realMinScore))

getAssertionResults(possibleAuditResults, options) ==
    LET aggregationMethod == methodOrDefault(options)
        ran(result) == IF result = None THEN 0 ELSE 1
    IN  IF \E i \in 1..Len(possibleAuditResults) : possibleAuditResults[i] = None
        THEN << [name |-> "auditRan", expected |-> 1, actual |-> 0,
                 values |-> Map(ran, possibleAuditResults), operator |-> ">="] >>
        ELSE LET auditResults == Map(Get, possibleAuditResults)
                 forMaxLength ==
                     IF options.maxLength # None
                     THEN getAssertionResult(auditResults, aggregationMethod,
                                             "maxLength", Get(options.maxLength))
                     ELSE <<>>
                 forMaxNumericValue ==
                     IF options.maxNumericValue # None
                     THEN getAssertionResult(auditResults, aggregationMethod,
                                             "maxNumericValue",
                                             Get(options.maxNumericValue))
                     ELSE <<>>
                 hadManualAssertion ==
                     options.maxLength # None \/ options.maxNumericValue # None
                 realMinScore ==
                     IF options.minScore = None /\ ~hadManualAssertion
                     THEN Some(ScoreOne)
                     ELSE options.minScore
                 forMinScore ==
                     IF realMinScore # None
                     THEN getAssertionResult(auditResults, aggregationMethod,
                                             "minScore", Get(realMinScore))
                     ELSE <<>>
             IN  forMaxLength \o forMaxNumericValue \o forMinScore

(***************************************************************************)
(* Budgets: getAssertionResultsForBudgetRow and getBudgetAssertionResults. *)
(***************************************************************************)
\* {...result, auditProperty: value}
WithAuditProperty(result, value) == ("auditProperty" :> value) @@ result

getAssertionResultsForBudgetRow(key, actual, expected) ==
    LET tag(assertion) == WithAuditProperty(assertion, key)
    IN  Map(tag, getAssertionResult(<< Audit(Some(0), None, Some(actual), None) >>,
                                    "pessimistic", "maxNumericValue", expected))

\* countOverBudget.match(/\d+/), then Number(match[0]) || 0: the first run of
\* digits of the strings of the input sets, None when there is none.
matchDigits(text) ==
    CASE text = "2 requests" -> Some(2)
      [] text = "1 request" -> Some(1)
      [] text = "0 requests" -> Some(0)
      [] OTHER -> None

\* budgetRowStep that never consults resultsKeys.
budgetRowStep_noDedup(acc, budgetRow) ==
    LET sizeKey == budgetRow.resourceType \o ".size"
        countKey == budgetRow.resourceType \o ".count"
        afterSize ==
            IF budgetRow.sizeOverBudget # None /\ Get(budgetRow.sizeOverBudget) # 0
            THEN LET actual == budgetRow.size
                     expected == actual - Get(budgetRow.sizeOverBudget)
                 IN  [results |-> acc.results
                                    \o getAssertionResultsForBudgetRow(sizeKey, actual, expected),
                      resultsKeys |-> acc.resultsKeys \cup {sizeKey}]
            ELSE acc
    IN  IF budgetRow.countOverBudget # None /\ Get(budgetRow.countOverBudget) # ""
        THEN LET actual == budgetRow.requestCount
                 overBudgetMatch == matchDigits(Get(budgetRow.countOverBudget))
             IN  IF overBudgetMatch = None THEN afterSize
                 ELSE LET expected == actual - Get(overBudgetMatch)
                      IN  [results |-> afterSize.results
                                         \o getAssertionResultsForBudgetRow(countKey, actual,
                                                                            expected),
                           resultsKeys |-> afterSize.resultsKeys \cup {countKey}]
        ELSE afterSize

\* One iteration of the inner loop: acc is [results, resultsKeys].
budgetRowStep(acc, budgetRow) ==
    LET sizeKey == budgetRow.resourceType \o ".size"
        countKey == budgetRow.resourceType \o ".count"
        afterSize ==
            IF budgetRow.sizeOverBudget # None /\ Get(budgetRow.sizeOverBudget) # 0
               /\ sizeKey \notin acc.resultsKeys
            THEN LET actual == budgetRow.size
                     expected == actual - Get(budgetRow.sizeOverBudget)
                 IN  [results |-> acc.results
                                    \o getAssertionResultsForBudgetRow(sizeKey, actual, expected),
                      resultsKeys |-> acc.resultsKeys \cup {sizeKey}]
            ELSE acc
    IN  IF budgetRow.countOverBudget # None /\ Get(budgetRow.countOverBudget) # ""
           /\ countKey \notin afterSize.resultsKeys
        THEN LET actual == budgetRow.requestCount
                 overBudgetMatch == matchDigits(Get(budgetRow.countOverBudget))
             IN  IF overBudgetMatch = None THEN afterSize
                 ELSE LET expected == actual - Get(overBudgetMatch)
                      IN  [results |-> afterSize.results
                                         \o getAssertionResultsForBudgetRow(countKey, actual,
                                                                            expected),
                           resultsKeys |-> afterSize.resultsKeys \cup {countKey}]
        ELSE afterSize

RECURSIVE budgetRows(_, _)
budgetRows(acc, items) ==
    IF items = <<>> THEN acc
    ELSE budgetRows(budgetRowStep(acc, Head(items)), Tail(items))

\* The outer loop.  An undefined element makes `auditResult.details` throw a
\* TypeError, which discards what was accumulated.
RECURSIVE budgetAudits(_, _)
budgetAudits(acc, auditResults) ==
    IF auditResults = <<>> THEN [err |-> "", res |-> acc.results]
    ELSE IF Head(auditResults) = None THEN [err |-> "TypeError", res |-> <<>>]
    ELSE LET auditResult == Get(Head(auditResults))
         IN  IF auditResult.details = None \/ Get(auditResult.details).items = None
             THEN budgetAudits(acc, Tail(auditResults))
             ELSE budgetAudits(budgetRows(acc, Get(Get(auditResult.details).items)),
                               Tail(auditResults))

getBudgetAssertionResults(auditResults) ==
    budgetAudits([results |-> <<>>, resultsKeys |-> {}], auditResults)

(***************************************************************************)
(* Reports and configurations.                                             *)
(*  - a report (LHR) is [finalUrl, categories, audits]; categories and     *)
(*    audits are functions from the ids the report holds;                  *)
(*  - a JavaScript object used as a mapping (assertions) is the sequence   *)
(*    of its [key, value] entries in insertion order;                      *)
(*  - an assertion is [form, level, options]: form "string" for a bare     *)
(*    level, "pair" for [level, options];                                  *)
(*  - a configuration is a record of the optional fields assertMatrix,     *)
(*    assertions, preset, budgetsFile, aggregationMethod,                  *)
(*    matchingUrlPattern.                                                  *)
(***************************************************************************)
\* lhr.audits[auditId]
auditOf(lhr, auditId) ==
    IF auditId \in DOMAIN lhr.audits THEN Some(lhr.audits[auditId]) ELSE None

\* lhr.categories[categoryId]
categoryOf(lhr, categoryId) ==
    IF categoryId \in DOMAIN lhr.categories THEN Some(lhr.categories[categoryId]) ELSE None

NoOptions == [minScore |-> None, maxLength |-> None, maxNumericValue |-> None,
              aggregationMethod |-> None]

\* assertions[key]
RECURSIVE lookup(_, _)
lookup(entries, key) ==
    IF entries = <<>> THEN None
    ELSE IF Head(entries).key = key THEN Some(Head(entries).value)
    ELSE lookup(Tail(entries), key)

normalizeAssertion(assertion) ==
    IF assertion = None THEN <<"off", NoOptions>>
    ELSE IF Get(assertion).form = "string" THEN <<Get(assertion).level, NoOptions>>
    ELSE <<Get(assertion).level, Get(assertion).options>>

(***************************************************************************)
(* getCategoryAssertionResults and getAssertionResultsForAudit.            *)
(***************************************************************************)
\* auditProperty.join('.')
RECURSIVE join(_)
join(segments) ==
    IF Len(segments) = 1 THEN segments[1]
    ELSE segments[1] \o "." \o join(Tail(segments))

getCategoryAssertionResults(auditProperty, assertionOptions, lhrs) ==
    IF Len(auditProperty) # 1
    THEN [err |-> "Invalid resource-summary assertion", res |-> <<>>]
    ELSE LET categoryId == auditProperty[1]
             psuedo(lhr) ==
                 LET category == categoryOf(lhr, categoryId)
                 IN  IF category = None THEN None
                     ELSE Some(Audit(Get(category).score, None, None, None))
             psuedoAudits == Map(psuedo, lhrs)
             tag(result) == WithAuditProperty(result, categoryId)
         IN  [err |-> "", res |-> Map(tag, getAssertionResults(psuedoAudits, assertionOptions))]

\* items.find(item => item.resourceType === resourceType)
RECURSIVE find(_, _)
find(items, resourceType) ==
    IF items = <<>> THEN None
    ELSE IF Head(items).resourceType = resourceType THEN Some(Head(items))
    ELSE find(Tail(items), resourceType)

resourceSummaryPsuedoAudit(result, auditProperty) ==
    IF result = None THEN None
    ELSE IF Get(result).details = None THEN None
    ELSE IF Get(Get(result).details).items = None THEN None
    ELSE LET item == find(Get(Get(Get(result).details).items), auditProperty[1])
         IN  IF item = None THEN None
             ELSE IF auditProperty[2] = "count"
                  THEN Some([Get(result) EXCEPT !.numericValue = Some(Get(item).requestCount)])
                  ELSE Some([Get(result) EXCEPT !.numericValue = Some(Get(item).size)])

\* auditProperty is None when the key has no dotted suffix.
getAssertionResultsForAudit(auditId, auditProperty, auditResults, assertionOptions, lhrs) ==
    IF auditId = "performance-budget"
    THEN getBudgetAssertionResults(auditResults)
    ELSE IF auditId = "categories" /\ auditProperty # None
    THEN getCategoryAssertionResults(Get(auditProperty), assertionOptions, lhrs)
    ELSE IF auditId = "resource-summary" /\ auditProperty # None
    THEN IF Len(Get(auditProperty)) # 2 \/ Get(auditProperty)[2] \notin {"size", "count"}
         THEN [err |-> "Invalid resource-summary assertion", res |-> <<>>]
         ELSE LET psuedo(result) == resourceSummaryPsuedoAudit(result, Get(auditProperty))
                  psuedoAuditResults == Map(psuedo, auditResults)
                  tag(result) == WithAuditProperty(result, join(Get(auditProperty)))
              IN  [err |-> "",
                   res |-> Map(tag, getAssertionResults(psuedoAuditResults, assertionOptions))]
    ELSE [err |-> "", res |-> getAssertionResults(auditResults, assertionOptions)]

(***************************************************************************)
(* resolveAssertionOptionsAndLhrs.                                         *)
(***************************************************************************)
\* new RegExp(pattern).test(lhr.finalUrl), for the patterns of the input sets.
doesLHRMatchPattern(pattern, lhr) ==
    CASE pattern = "one" -> lhr.finalUrl = "http://one/"
      [] pattern = "two" -> lhr.finalUrl = "http://two/"
      [] pattern = "http" -> TRUE
      [] OTHER -> FALSE

RECURSIVE filterLhrs(_, _)
filterLhrs(lhrs, pattern) ==
    IF lhrs = <<>> THEN <<>>
    ELSE IF doesLHRMatchPattern(pattern, Head(lhrs))
         THEN <<Head(lhrs)>> \o filterLhrs(Tail(lhrs), pattern)
         ELSE filterLhrs(Tail(lhrs), pattern)

\* _.kebabCase of lodash.js (not among the source files): "stable case-folding
\* to a canonical dashed form", tabulated for the keys of the input sets.
kebabCase(key) ==
    CASE key = "firstContentfulPaint" -> "first-contentful-paint"
      [] key = "performanceBudget" -> "performance-budget"
      [] OTHER -> key

\* assertionKey.split('.'), tabulated for the keys of the input sets.
split(assertionKey) ==
    CASE assertionKey = "categories.performance" -> <<"categories", "performance">>
      [] assertionKey = "categories.performance.score"
           -> <<"categories", "performance", "score">>
      [] assertionKey = "resource-summary.script.size"
           -> <<"resource-summary", "script", "size">>
      [] assertionKey = "resource-summary.script.count"
           -> <<"resource-summary", "script", "count">>
      [] assertionKey = "resource-summary.script" -> <<"resource-summary", "script">>
      [] OTHER -> <<assertionKey>>

\* [...new Set(keys)]: the first occurrence of each key, in order.
RECURSIVE unique(_, _)
unique(keys, seen) ==
    IF keys = <<>> THEN <<>>
    ELSE IF Head(keys) \in seen THEN unique(Tail(keys), seen)
    ELSE <<Head(keys)>> \o unique(Tail(keys), seen \cup {Head(keys)})

\* The preset registry (presets/*.js, not among the source files): a lookup
\* from name to a configuration object.
presetData(name) ==
    [assertions |-> << [key |-> "first-contentful-paint",
                        value |-> [form |-> "pair", level |-> "warn",
                                   options |-> [NoOptions EXCEPT !.minScore = Some(75)]]] >>]

\* _.merge of two assertion values: the override wins; two [level, options]
\* pairs are merged structurally.
mergeAssertion(base, override) ==
    IF base.form = "pair" /\ override.form = "pair"
    THEN [form |-> "pair", level |-> override.level,
          options |-> [f \in DOMAIN NoOptions |->
                          IF override.options[f] # None THEN override.options[f]
                          ELSE base.options[f]]]
    ELSE override

\* _.merge of two assertions mappings (lodash.js, not among the source files):
\* the base's keys keep their place, the override's new keys follow.
mergeAssertions(base, overrides) ==
    LET merged(entry) ==
            IF lookup(overrides, entry.key) = None THEN entry
            ELSE [key |-> entry.key,
                  value |-> mergeAssertion(entry.value, Get(lookup(overrides, entry.key)))]
        isNew(entry) == lookup(base, entry.key) = None
    IN  Map(merged, base) \o SelectSeq(overrides, isNew)

\* Lines 320-326: the options to use, the preset merged under the overrides.
optionsToUse(baseOptions) ==
    IF baseOptions.preset # None
    THEN [baseOptions EXCEPT
            !.assertions =
                Some(mergeAssertions(presetData(Get(baseOptions.preset)).assertions,
                                     IF baseOptions.assertions = None THEN <<>>
                                     ELSE Get(baseOptions.assertions)))]
    ELSE baseOptions

\* Lines 341-355: one audit to assert of a normalized key.
auditToAssert(assertionKey, lhrs) ==
    LET parts == split(assertionKey)
        auditId == Head(parts)
        rest == Tail(parts)
        present(o) == o # None
        idOf(lhr) == auditOf(lhr, auditId)
        auditInstances == Map(Get, SelectSeq(Map(idOf, lhrs), present))
        failed(audit) == audit.score # Some(ScoreOne)
        failedAudits == SelectSeq(auditInstances, failed)
        auditTitle ==
            IF failedAudits # <<>> THEN Head(failedAudits).title
            ELSE IF auditInstances # <<>> THEN Head(auditInstances).title
            ELSE None
    IN  [assertionKey |-> assertionKey, auditId |-> auditId, auditTitle |-> auditTitle,
         auditProperty |-> IF rest = <<>> THEN None ELSE Some(rest)]

\* representative is the index in lhrs of the report computeRepresentativeRuns
\* (representative-runs.js, not among the source files) selects.
\* Lines 328-331: the reports the configuration's matchingUrlPattern keeps.
matchingLhrs(baseOptions, unfilteredLhrs) ==
    LET urlPattern == optionsToUse(baseOptions).matchingUrlPattern
    IN  IF urlPattern # None /\ Get(urlPattern) # ""
        THEN filterLhrs(unfilteredLhrs, Get(urlPattern))
        ELSE unfilteredLhrs

resolveAssertionOptionsAndLhrs(baseOptions, unfilteredLhrs, representative) ==
    LET toUse == optionsToUse(baseOptions)
        assertions == IF toUse.assertions = None THEN <<>> ELSE Get(toUse.assertions)
        lhrs == matchingLhrs(baseOptions, unfilteredLhrs)
        uniqueURLs == {lhrs[i].finalUrl : i \in 1..Len(lhrs)}
        medianLhrs == IF lhrs = <<>> THEN <<>> ELSE <<lhrs[representative]>>
        keyOf(entry) == kebabCase(entry.key)
        toAssert(assertionKey) == auditToAssert(assertionKey, lhrs)
    IN  IF Cardinality(uniqueURLs) > 1
        THEN [err |-> "Can only assert one URL at a time!"]
        ELSE [err |-> "",
              assertions |-> assertions,
              auditsToAssert |-> Map(toAssert, unique(Map(keyOf, assertions), {})),
              medianLhrs |-> medianLhrs,
              aggregationMethod |-> toUse.aggregationMethod,
              lhrs |-> lhrs,
              url |-> IF lhrs # <<>> THEN lhrs[1].finalUrl ELSE ""]

(***************************************************************************)
(* getAllFilteredAssertionResults: the body of the loop over the audits to *)
(* assert (lines 389-412), for one audit to assert of a resolution.        *)
(***************************************************************************)
\* {aggregationMethod, ...assertionOptions}
effectiveOptions(aggregationMethod, assertionOptions) ==
    IF assertionOptions.aggregationMethod # None THEN assertionOptions
    ELSE [assertionOptions EXCEPT !.aggregationMethod = aggregationMethod]

lhrsToUseForAudit(options, resolution) ==
    IF options.aggregationMethod = Some("median-run") THEN resolution.medianLhrs
    ELSE resolution.lhrs

\* The reports handed to getAssertionResultsForAudit as its last argument.
lhrsForCategories(options, resolution) == resolution.lhrs

assertAudit(resolution, toAssert) ==
    LET normalized == normalizeAssertion(lookup(resolution.assertions, toAssert.assertionKey))
        level == normalized[1]
        options == effectiveOptions(resolution.aggregationMethod, normalized[2])
        auditIn(lhr) == auditOf(lhr, toAssert.auditId)
        auditResults == Map(auditIn, lhrsToUseForAudit(options, resolution))
        assertionResults ==
            getAssertionResultsForAudit(toAssert.auditId, toAssert.auditProperty,
                                        auditResults, options,
                                        lhrsForCategories(options, resolution))
        final(result) ==
            (IF toAssert.auditTitle # None
             THEN ("auditTitle" :> Get(toAssert.auditTitle))
             ELSE <<>>)
            @@ [auditId |-> toAssert.auditId, level |-> level, url |-> resolution.url]
            @@ result
    IN  IF level = "off"
        THEN [err |-> "", skipped |-> TRUE, level |-> level, options |-> options,
              auditResults |-> <<>>, res |-> <<>>]
        ELSE [err |-> assertionResults.err, skipped |-> FALSE, level |-> level,
              options |-> options, auditResults |-> auditResults,
              res |-> Map(final, assertionResults.res)]

(***************************************************************************)
(* getAllAssertionResults: grouping and the assertMatrix rule.             *)
(***************************************************************************)
\* _.groupBy of lodash.js (not among the source files): the groups in
\* first-seen order of their key, each in the order of the input.
groupBy(lhrs) ==
    LET urlOf(lhr) == lhr.finalUrl
        urls == unique(Map(urlOf, lhrs), {})
        group(url) == LET has(lhr) == lhr.finalUrl = url IN SelectSeq(lhrs, has)
    IN  Map(group, urls)

\* A field counts as set when JavaScript finds it truthy.
cannotUseAssertMatrix(options) ==
    \/ options.assertions # None
    \/ options.preset # None /\ options.preset # Some("")
    \/ options.budgetsFile # None /\ options.budgetsFile # Some("")
    \/ options.aggregationMethod # None

(***************************************************************************)
(* Input sets.                                                             *)
(***************************************************************************)
\* Largest number of reports (runs) of one URL in a batch.
MaxRuns == 3

Scores == {0, 50, ScoreOne}
NumericValues == {2, 4, 6}
Thresholds == {1, 3, 4, 50, 75, ScoreOne}

AggregationMethods == {"optimistic", "pessimistic", "median"}
AssertionKinds == {"minScore", "maxLength", "maxNumericValue"}

Row(t) == [resourceType |-> t]

\* Audit results that yield a finite value for every kind: the base audit and
\* every audit that differs from it in one field.
MeasuredAudit(s, n, it) ==
    Audit(Some(s), Some("numeric"), Some(n), Items(it))

ItemLists == {<<>>, <<Row("script")>>, <<Row("script"), Row("image")>>}

MeasuredAudits ==
    {MeasuredAudit(s, 4, <<Row("script")>>) : s \in Scores}
    \cup {MeasuredAudit(50, n, <<Row("script")>>) : n \in NumericValues}
    \cup {MeasuredAudit(50, 4, it) : it \in ItemLists}

SeqsUpTo(S, n) == UNION {[1..k -> S] : k \in 1..n}

(***************************************************************************)
(* SpecResult: getAssertionResult applied to measured audit results.       *)
(***************************************************************************)
\* The locals of getAllAssertionResults before it is entered.
NotEntered ==
    /\ groupedByURL = <<>>
    /\ arrayOfOptions = <<>>
    /\ gi = 0 /\ oi = 0 /\ ai = 0
    /\ resolved = [err |-> ""]
    /\ step = [err |-> ""]

InitResult ==
    /\ pc = "getAssertionResult"
    /\ args \in [auditResults : SeqsUpTo(MeasuredAudits, MaxRuns),
                 aggregationMethod : AggregationMethods,
                 assertionType : AssertionKinds,
                 expectedValue : Thresholds]
    /\ ret = <<>>
    /\ threw = ""
    /\ NotEntered

CallGetAssertionResult ==
    /\ pc = "getAssertionResult"
    /\ ret' = getAssertionResult(args.auditResults, args.aggregationMethod,
                                 args.assertionType, args.expectedValue)
    /\ pc' = "done"
    /\ UNCHANGED <<args, threw, locals>>

NextResult == CallGetAssertionResult

SpecResult == InitResult /\ [][NextResult]_vars

(***************************************************************************)
(* SpecAudit: getAssertionResults applied to the per-report results of one *)
(* audit, some of which may be missing or may lack a value.                *)
(***************************************************************************)
AssemblyAudits ==
    { Audit(Some(0), Some("numeric"), Some(2), Items(<<>>)),
      Audit(Some(ScoreOne), Some("numeric"), Some(6), Items(<<Row("script"), Row("image")>>)),
      Audit(Some(50), Some("numeric"), None, Items(<<Row("script")>>)),
      Audit(None, Some("notApplicable"), None, None),
      Audit(None, Some("informative"), Some(4), Some([items |-> None])),
      Audit(None, Some("manual"), None, None) }

AssemblyOptions ==
    [minScore : {None, Some(75), Some(ScoreOne)},
     maxLength : {None, Some(1)},
     maxNumericValue : {None, Some(3)},
     aggregationMethod : {None} \cup {Some(m) : m \in AggregationMethods \cup {"median-run"}}]

InitAudit ==
    /\ pc = "getAssertionResults"
    /\ args \in [possibleAuditResults :
                     SeqsUpTo({None} \cup {Some(a) : a \in AssemblyAudits}, MaxRuns),
                 options : AssemblyOptions]
    /\ ret = <<>>
    /\ threw = ""
    /\ NotEntered

CallGetAssertionResults ==
    /\ pc = "getAssertionResults"
    /\ ret' = getAssertionResults(args.possibleAuditResults, args.options)
    /\ pc' = "done"
    /\ UNCHANGED <<args, threw, locals>>

NextAudit == CallGetAssertionResults

SpecAudit == InitAudit /\ [][NextAudit]_vars

(***************************************************************************)
(* SpecBudget: getBudgetAssertionResults applied to the performance-budget *)
(* audit results of the reports.                                           *)
(***************************************************************************)
\* Largest number of reports carrying a budget audit.
MaxBudgetRuns == 2

BudgetRow(t, size, sizeOver, count, countOver) ==
    [resourceType |-> t, size |-> size, sizeOverBudget |-> sizeOver,
     requestCount |-> count, countOverBudget |-> countOver]

BudgetRowSet ==
    { BudgetRow("script", 60, Some(20), 5, None),
      BudgetRow("script", 80, Some(10), 7, Some("2 requests")),
      BudgetRow("script", 40, None, 9, Some("requests")),
      BudgetRow("script", 30, Some(0), 3, Some("0 requests")),
      BudgetRow("image", 50, Some(20), 4, Some("1 request")),
      BudgetRow("image", 20, None, 2, None) }

BudgetItemLists ==
    {<<>>} \cup {<<r>> : r \in BudgetRowSet}
           \cup {<<r1, r2>> : r1 \in BudgetRowSet, r2 \in BudgetRowSet}

BudgetAudits ==
    { Audit(Some(0), Some("binary"), None, None),
      Audit(Some(0), Some("binary"), None, Some([items |-> None])) }
    \cup { Audit(Some(0), Some("binary"), None, Items(it)) : it \in BudgetItemLists }

InitBudget ==
    /\ pc = "getBudgetAssertionResults"
    /\ args \in [auditResults : SeqsUpTo({Some(a) : a \in BudgetAudits}, MaxBudgetRuns)]
    /\ ret = <<>>
    /\ threw = ""
    /\ NotEntered

CallGetBudgetAssertionResults ==
    /\ pc = "getBudgetAssertionResults"
    /\ LET r == getBudgetAssertionResults(args.auditResults)
       IN  ret' = r.res /\ threw' = r.err
    /\ pc' = "done"
    /\ UNCHANGED <<args, locals>>

NextBudget == CallGetBudgetAssertionResults

SpecBudget == InitBudget /\ [][NextBudget]_vars

(***************************************************************************)
(* Spec: getAllAssertionResults applied to a configuration and a batch of  *)
(* reports.  A batch exercises one audit (a generic audit, the performance *)
(* budget, a category or the resource summary); its reports span two URLs. *)
(***************************************************************************)
\* Largest number of reports in a batch.
MaxLhrs == 2

EmptyMap == [x \in {} |-> x]

Lhr(url, categories, audits) ==
    [finalUrl |-> url, categories |-> categories, audits |-> audits]

Titled(audit, title) == ("title" :> Some(title)) @@ audit

Urls == {"http://one/", "http://two/"}

SummaryRow(t, size, count) == [resourceType |-> t, size |-> size, requestCount |-> count]

\* The audit every URL's reports may hold for the target id.
MainAudit(target) ==
    CASE target = "first-contentful-paint" ->
           Titled(Audit(Some(50), Some("numeric"), Some(60), None), "FCP (slow)")
      [] target = "performance-budget" ->
           Titled(Audit(None, Some("informative"), None,
                        Items(<<BudgetRow("script", 60, Some(20), 5, None)>>)), "Budget")
      [] target = "resource-summary" ->
           Titled(Audit(None, Some("informative"), None,
                        Items(<<SummaryRow("image", 40, 4), SummaryRow("script", 60, 6)>>)),
                  "Summary")

\* The further audits the first URL's reports may hold for it.
OtherAudits(target) ==
    CASE target = "first-contentful-paint" ->
           { Titled(Audit(Some(ScoreOne), Some("numeric"), Some(20), None), "FCP"),
             Titled(Audit(None, Some("error"), None, None), "FCP (error)") }
      [] target = "performance-budget" ->
           { Titled(Audit(None, Some("informative"), None, None), "Budget"),
             Titled(Audit(None, Some("informative"), None,
                          Items(<<BudgetRow("script", 80, Some(10), 7, Some("2 requests")),
                                  BudgetRow("image", 20, None, 2, None)>>)), "Budget") }
      [] target = "resource-summary" ->
           { Titled(Audit(None, Some("informative"), None, None), "Summary"),
             Titled(Audit(None, Some("informative"), None,
                          Items(<<SummaryRow("script", 20, 2)>>)), "Summary"),
             Titled(Audit(None, Some("informative"), None,
                          Items(<<SummaryRow("image", 40, 4)>>)), "Summary") }

MainCategories == "performance" :> [score |-> Some(50)]

OtherCategories ==
    { "performance" :> [score |-> Some(ScoreOne)], "performance" :> [score |-> None] }

\* The reports of a target: those of the first URL hold no audit (category) of
\* the target or any of its audits, those of the second none or the main one.
TargetLhrs(target) ==
    IF target = "categories"
    THEN { Lhr(url, categories, EmptyMap) :
             url \in Urls, categories \in {EmptyMap, MainCategories} }
         \cup { Lhr("http://one/", categories, EmptyMap) : categories \in OtherCategories }
    ELSE { Lhr(url, EmptyMap, audits) :
             url \in Urls, audits \in {EmptyMap, target :> MainAudit(target)} }
         \cup { Lhr("http://one/", EmptyMap, target :> a) : a \in OtherAudits(target) }

Targets == {"first-contentful-paint", "performance-budget", "resource-summary", "categories"}

TargetKeys(target) ==
    CASE target = "first-contentful-paint" -> {"first-contentful-paint", "firstContentfulPaint"}
      [] target = "performance-budget" -> {"performance-budget", "performanceBudget"}
      [] target = "resource-summary" ->
           {"resource-summary.script.size", "resource-summary.script.count",
            "resource-summary", "resource-summary.script"}
      [] target = "categories" ->
           {"categories.performance", "categories", "categories.performance.score"}

Level(level) == [form |-> "string", level |-> level, options |-> NoOptions]
Pair(level, options) == [form |-> "pair", level |-> level, options |-> options]

PipelineOptions ==
    { NoOptions,
      [NoOptions EXCEPT !.maxNumericValue = Some(30)],
      [NoOptions EXCEPT !.minScore = Some(75)],
      [NoOptions EXCEPT !.maxNumericValue = Some(30), !.aggregationMethod = Some("pessimistic")],
      [NoOptions EXCEPT !.maxNumericValue = Some(30), !.aggregationMethod = Some("median-run")],
      [NoOptions EXCEPT !.minScore = Some(75), !.aggregationMethod = Some("median-run")],
      [NoOptions EXCEPT !.minScore = Some(75), !.aggregationMethod = Some("median")] }

AssertionValues ==
    {Level("off"), Level("error")} \cup {Pair("warn", o) : o \in PipelineOptions}

\* The assertions mappings of a target: one key, or two keys the second of
\* which is asserted by a bare level.
AssertionMaps(target) ==
    { << [key |-> k, value |-> v] >> : k \in TargetKeys(target), v \in AssertionValues }
    \cup { << [key |-> kk[1], value |-> v], [key |-> kk[2], value |-> Level(l)] >> :
             kk \in {p \in TargetKeys(target) \X TargetKeys(target) : p[1] # p[2]},
             v \in {Level("error"), Pair("warn", [NoOptions EXCEPT !.maxNumericValue = Some(30)])},
             l \in {"warn"} }

BaseOptions(assertions, preset, method, pattern) ==
    [assertions |-> assertions, preset |-> preset, aggregationMethod |-> method,
     matchingUrlPattern |-> pattern, budgetsFile |-> None, assertMatrix |-> None]

\* Configurations without assertMatrix.
PlainOptions(target) ==
    { BaseOptions(Some(a), None, mp[1], mp[2]) :
        a \in AssertionMaps(target),
        mp \in {<<None, None>>, <<Some("median-run"), None>>, <<None, Some("one")>>} }
    \cup { BaseOptions(a, Some("lighthouse:recommended"), None, None) :
             a \in {None} \cup {Some(<< [key |-> k, value |-> Level("error")] >>) :
                                  k \in TargetKeys(target)} }

\* The entries a matrix is made of: the target's canonical key, asserted by a
\* bare level or by a minScore, for every report or for those of one URL.
CanonicalKey(target) ==
    CASE target = "resource-summary" -> "resource-summary.script.size"
      [] target = "categories" -> "categories.performance"
      [] OTHER -> target

MatrixEntries(target) ==
    { BaseOptions(Some(<< [key |-> CanonicalKey(target), value |-> v] >>), None, None, p) :
        v \in {Level("error"), Pair("warn", [NoOptions EXCEPT !.minScore = Some(75)])},
        p \in {None, Some("two")} }

\* Configurations with assertMatrix, alone or beside one other field.
MatrixOptions(target) ==
    LET first == BaseOptions(Some(<< [key |-> CanonicalKey(target), value |-> Level("error")] >>),
                             None, None, None)
        matrices == {<<>>} \cup {<<e>> : e \in MatrixEntries(target)}
                    \cup {<<first, e>> : e \in MatrixEntries(target)}
        alone == BaseOptions(None, None, None, None)
        beside == { alone,
                    [alone EXCEPT !.assertions = Some(<<>>)],
                    [alone EXCEPT !.preset = Some("lighthouse:recommended")],
                    [alone EXCEPT !.budgetsFile = Some("budgets.json")],
                    [alone EXCEPT !.aggregationMethod = Some("pessimistic")],
                    [alone EXCEPT !.matchingUrlPattern = Some("one")] }
    IN  { [b EXCEPT !.assertMatrix = Some(m)] :
            b \in {alone, [alone EXCEPT !.matchingUrlPattern = Some("one")]}, m \in matrices }
        \cup { [b EXCEPT !.assertMatrix = Some(<<first>>)] : b \in beside }

SeqsFromZero(S, n) == {<<>>} \cup SeqsUpTo(S, n)

Init ==
    /\ pc = "getAllAssertionResults"
    /\ \E target \in Targets :
          args \in [options : PlainOptions(target) \cup MatrixOptions(target),
                    lhrs : SeqsFromZero(TargetLhrs(target), MaxLhrs)]
    /\ ret = <<>>
    /\ threw = ""
    /\ NotEntered

\* The move to the next (group, configuration) pair, or the return.
Advance ==
    IF oi < Len(arrayOfOptions)
    THEN pc' = "resolve" /\ oi' = oi + 1 /\ gi' = gi
    ELSE IF gi < Len(groupedByURL)
    THEN pc' = "resolve" /\ oi' = 1 /\ gi' = gi + 1
    ELSE pc' = "done" /\ oi' = oi /\ gi' = gi

\* Lines 423-437: grouping, and the assertMatrix rule.
Enter ==
    /\ pc = "getAllAssertionResults"
    /\ groupedByURL' = groupBy(args.lhrs)
    /\ IF args.options.assertMatrix # None /\ cannotUseAssertMatrix(args.options)
       THEN /\ threw' = "Cannot use assertMatrix with other options"
            /\ arrayOfOptions' = <<args.options>>
            /\ pc' = "done"
            /\ UNCHANGED <<gi, oi>>
       ELSE /\ threw' = ""
            /\ arrayOfOptions' = IF args.options.assertMatrix # None
                                 THEN Get(args.options.assertMatrix)
                                 ELSE <<args.options>>
            /\ IF groupedByURL' = <<>> \/ arrayOfOptions' = <<>>
               THEN pc' = "done" /\ UNCHANGED <<gi, oi>>
               ELSE pc' = "resolve" /\ gi' = 1 /\ oi' = 1
    /\ UNCHANGED <<args, ret, ai, resolved, step>>

\* Lines 380-383: the resolution for the pair (gi, oi).
Resolve ==
    /\ pc = "resolve"
    /\ \E representative \in
             1..(IF matchingLhrs(arrayOfOptions[oi], groupedByURL[gi]) = <<>> THEN 1
                 ELSE Len(matchingLhrs(arrayOfOptions[oi], groupedByURL[gi]))) :
          LET r == resolveAssertionOptionsAndLhrs(arrayOfOptions[oi], groupedByURL[gi],
                                                  representative)
          IN  /\ resolved' = r
              /\ step' = [err |-> ""]
              /\ IF r.err # ""
                 THEN /\ threw' = r.err /\ ret' = <<>> /\ pc' = "done"
                      /\ UNCHANGED <<gi, oi, ai>>
                 ELSE IF r.lhrs = <<>> \/ r.auditsToAssert = <<>>
                 THEN Advance /\ UNCHANGED <<threw, ret, ai>>
                 ELSE pc' = "assert" /\ ai' = 1 /\ UNCHANGED <<threw, ret, gi, oi>>
    /\ UNCHANGED <<args, groupedByURL, arrayOfOptions>>

\* Lines 388-413: one iteration of the loop over the audits to assert.
AssertAudit ==
    /\ pc = "assert"
    /\ LET toAssert == resolved.auditsToAssert[ai]
           r == assertAudit(resolved, toAssert)
       IN  /\ step' = [toAssert |-> toAssert] @@ r
           /\ IF r.err # ""
              THEN /\ threw' = r.err /\ ret' = <<>> /\ pc' = "done"
                   /\ UNCHANGED <<gi, oi, ai>>
              ELSE /\ ret' = ret \o r.res
                   /\ threw' = threw
                   /\ IF ai < Len(resolved.auditsToAssert)
                      THEN pc' = "assert" /\ ai' = ai + 1 /\ UNCHANGED <<gi, oi>>
                      ELSE Advance /\ ai' = ai
    /\ UNCHANGED <<args, groupedByURL, arrayOfOptions, resolved>>

Next == Enter \/ Resolve \/ AssertAudit

Spec == Init /\ [][Next]_vars

(***************************************************************************)
(* The aggregate as the specification words it (sections 4.1, 4.2),        *)
(* defined by counting, independently of the code's sort and fold.         *)
(***************************************************************************)
CountBelow(vals, x) == Cardinality({i \in 1..Len(vals) : vals[i] < x})
CountAtMost(vals, x) == Cardinality({i \in 1..Len(vals) : vals[i] <= x})

\* The k-th element of the ascending sort of vals.
KthSmallest(vals, k) ==
    CHOOSE x \in Range(vals) : CountBelow(vals, x) < k /\ k <= CountAtMost(vals, x)

Least(vals) == CHOOSE x \in Range(vals) : \A y \in Range(vals) : x <= y
Greatest(vals) == CHOOSE x \in Range(vals) : \A y \in Range(vals) : x >= y

IsMaxKind(kind) == kind \in {"maxLength", "maxNumericValue"}

StatedAggregate(vals, mode, kind) ==
    LET n == Len(vals) IN
    CASE mode = "median" ->
           IF n % 2 = 1 THEN KthSmallest(vals, (n + 1) \div 2)
           ELSE (KthSmallest(vals, n \div 2) + KthSmallest(vals, n \div 2 + 1)) \div 2
      [] mode = "optimistic" -> IF IsMaxKind(kind) THEN Least(vals) ELSE Greatest(vals)
      [] mode = "pessimistic" -> IF IsMaxKind(kind) THEN Greatest(vals) ELSE Least(vals)

StatedPasses(kind, actual, expected) ==
    IF kind = "minScore" THEN actual >= expected ELSE actual <= expected

\* The value section 4.1's table reads for a kind from a measured audit.
StatedValue(kind, audit) ==
    CASE kind = "minScore" -> Get(audit.score)
      [] kind = "maxNumericValue" -> Get(audit.numericValue)
      [] kind = "maxLength" -> Len(Get(Get(audit.details).items))

AtAuditDone == pc = "done" /\ "possibleAuditResults" \in DOMAIN args

AllPresent == \A i \in 1..Len(args.possibleAuditResults) : args.possibleAuditResults[i] # None

\* The kinds section 4.4 says are evaluated, and the threshold of each.
StatedKinds(options) ==
    {k \in {"maxLength"} : options.maxLength # None}
    \cup {k \in {"maxNumericValue"} : options.maxNumericValue # None}
    \cup {k \in {"minScore"} :
            options.minScore # None
            \/ (options.maxLength = None /\ options.maxNumericValue = None)}

StatedThreshold(options, kind) ==
    CASE kind = "maxLength" -> Get(options.maxLength)
      [] kind = "maxNumericValue" -> Get(options.maxNumericValue)
      [] kind = "minScore" ->
           IF options.minScore # None THEN Get(options.minScore) ELSE ScoreOne

\* The value a possibly missing audit result yields for a kind.
YieldOf(kind, possible) ==
    IF possible = None THEN None ELSE AUDIT_TYPE_VALUE_GETTERS(kind, Get(possible))

\* The finite values the reports yield for a kind, in report order.
FiniteYields(kind) ==
    FilterFinite([i \in 1..Len(args.possibleAuditResults) |->
                     YieldOf(kind, args.possibleAuditResults[i])])

Named(results, name) == {i \in 1..Len(results) : results[i].name = name}

\* The kind-specific comparison is applied to the aggregate of the finite
\* values only.
ComparedOnFiniteValues(kind) ==
    LET vals == FiniteYields(kind)
        mode == methodOrDefault(args.options)
        agg == StatedAggregate(vals, mode, kind)
        fails == ~StatedPasses(kind, agg, StatedThreshold(args.options, kind))
    IN  /\ Cardinality(Named(ret, kind)) = IF fails THEN 1 ELSE 0
        /\ \A i \in Named(ret, kind) : ret[i].actual = agg /\ ret[i].values = vals

TolerantMode == methodOrDefault(args.options) \in {"optimistic", "median"}

C8_ImplicitMinScore ==
    AtAuditDone /\ AllPresent =>
        LET options == args.options
            auditResults == Map(Get, args.possibleAuditResults)
            mode == methodOrDefault(options)
            evaluated == options.minScore # None
                         \/ (options.maxLength = None /\ options.maxNumericValue = None)
            threshold == IF options.minScore # None THEN Get(options.minScore) ELSE ScoreOne
            manual ==
                (IF options.maxLength # None
                 THEN getAssertionResult(auditResults, mode, "maxLength",
                                         Get(options.maxLength))
                 ELSE <<>>)
                \o (IF options.maxNumericValue # None
                    THEN getAssertionResult(auditResults, mode, "maxNumericValue",
                                            Get(options.maxNumericValue))
                    ELSE <<>>)
        IN  IF evaluated
            THEN ret = manual \o getAssertionResult(auditResults, mode, "minScore", threshold)
            ELSE ret = manual /\ Named(ret, "minScore") = {}

\* With no option set at all, an imperfect score fails the implicit minScore 1.
C8_Witness ==
    /\ AtAuditDone
    /\ AllPresent
    /\ args.options.minScore = None
    /\ args.options.maxLength = None
    /\ args.options.maxNumericValue = None
    /\ Len(ret) = 1
    /\ ret[1].name = "minScore"
    /\ ret[1].expected = ScoreOne

(***************************************************************************)
(* Claims about getBudgetAssertionResults (SpecBudget).                    *)
(***************************************************************************)
AtBudgetDone == pc = "done" /\ "auditResults" \in DOMAIN args /\ "options" \notin DOMAIN args

\* The budget rows of all reports, in the order the loops visit them.
RowsOf(possible) ==
    IF possible = None THEN <<>>
    ELSE IF Get(possible).details = None THEN <<>>
    ELSE IF Get(Get(possible).details).items = None THEN <<>>
    ELSE Get(Get(Get(possible).details).items)

VisitedRows == Flatten(Map(RowsOf, args.auditResults))

\* A row is processed for a metric when it is over budget for it (and, for
\* count, states a number).
ProcessedFor(row, metric) ==
    IF metric = "size"
    THEN row.sizeOverBudget # None /\ Get(row.sizeOverBudget) # 0
    ELSE row.countOverBudget # None /\ matchDigits(Get(row.countOverBudget)) # None

ActualOf(row, metric) == IF metric = "size" THEN row.size ELSE row.requestCount

OverOf(row, metric) ==
    IF metric = "size" THEN Get(row.sizeOverBudget)
    ELSE Get(matchDigits(Get(row.countOverBudget)))

ProcessedAt(t, metric) ==
    {i \in 1..Len(VisitedRows) :
        VisitedRows[i].resourceType = t /\ ProcessedFor(VisitedRows[i], metric)}

Tagged(results, key) == {i \in 1..Len(results) : results[i].auditProperty = key}

\* C7: getBudgetAssertionResults emits at most one violation per
\* "<resourceType>.size" and per "<resourceType>.count" key; it is the
\* violation of the first row processed for the key, and every later
\* over-budget row with that key emits nothing.
C7_OneViolationPerBudgetKey ==
    AtBudgetDone =>
        \A t \in {"script", "image"}, metric \in {"size", "count"} :
            LET key == t \o "." \o metric
                at == ProcessedAt(t, metric)
                first == CHOOSE i \in at : \A j \in at : i <= j
            IN  /\ Cardinality(Tagged(ret, key)) <= 1
                /\ at = {} => Tagged(ret, key) = {}
                /\ at # {} =>
                     /\ Cardinality(Tagged(ret, key))
                          = IF OverOf(VisitedRows[first], metric) > 0 THEN 1 ELSE 0
                     /\ \A i \in Tagged(ret, key) :
                            /\ ret[i].actual = ActualOf(VisitedRows[first], metric)
                            /\ ret[i].expected = ret[i].actual
                                                   - OverOf(VisitedRows[first], metric)

\* Two reports are over the script size budget and one violation surfaces.
C7_Witness ==
    /\ AtBudgetDone
    /\ Len(args.auditResults) = 2
    /\ Cardinality(ProcessedAt("script", "size")) >= 2
    /\ \A i \in ProcessedAt("script", "size") : OverOf(VisitedRows[i], "size") > 0
    /\ Cardinality(Tagged(ret, "script.size")) = 1

(***************************************************************************)
(* Claims about getAllAssertionResults (Spec).                             *)
(***************************************************************************)
\* An iteration of the loop over the audits to assert has just evaluated an
\* assertion.
Evaluated == "toAssert" \in DOMAIN step /\ ~step.skipped /\ step.err = ""

IsBudget == step.toAssert.auditId = "performance-budget"
IsCategory == step.toAssert.auditId = "categories" /\ step.toAssert.auditProperty # None
IsSummary == step.toAssert.auditId = "resource-summary" /\ step.toAssert.auditProperty # None

\* The per-report (pseudo-)audit results the evaluation was fed: the category
\* scores of the reports handed to the category deriver, the resource-summary
\* items, or the audit results themselves.
Fed ==
    IF IsCategory
    THEN LET psuedo(lhr) ==
                 IF categoryOf(lhr, Get(step.toAssert.auditProperty)[1]) = None THEN None
                 ELSE Some(Audit(Get(categoryOf(lhr, Get(step.toAssert.auditProperty)[1])).score,
                                 None, None, None))
         IN  Map(psuedo, lhrsForCategories(step.options, resolved))
    ELSE IF IsSummary
    THEN LET psuedo(result) ==
                 resourceSummaryPsuedoAudit(result, Get(step.toAssert.auditProperty))
         IN  Map(psuedo, step.auditResults)
    ELSE step.auditResults

FedWithFiniteValue(kind) ==
    {i \in 1..Len(Fed) : YieldOf(kind, Fed[i]) # None}

\* C1 as claimed: every AssertionResult's values has exactly one entry per
\* report fed to the evaluation of its assertion.
C1_AsClaimed ==
    Evaluated => \A i \in 1..Len(step.res) : Len(step.res[i].values) = Len(Fed)

\* C1 as amended: an auditRan violation's values has one entry per report fed
\* to the evaluation; a kind-specific violation's values has one entry per
\* fed report that yields a finite value for the kind (at least one, at most
\* the number of reports); a budget violation's values has the one entry of
\* its budget row.
C1_ValuesPerMeasuredReport ==
    Evaluated =>
        \A i \in 1..Len(step.res) :
            LET result == step.res[i] IN
            IF IsBudget THEN Len(result.values) = 1
            ELSE IF result.name = "auditRan" THEN Len(result.values) = Len(Fed)
            ELSE /\ Len(result.values) = Cardinality(FedWithFiniteValue(result.name))
                 /\ Len(result.values) >= 1
                 /\ Len(result.values) <= Len(Fed)

\* A kind-specific violation over two reports one of which has no value.
C1_Witness ==
    /\ Evaluated
    /\ ~IsBudget
    /\ Len(Fed) = 2
    /\ \E i \in 1..Len(step.res) :
          step.res[i].name = "maxNumericValue" /\ Len(step.res[i].values) = 1

\* C2: every AssertionResult's operator, expected and actual follow the rule
\* of its name: auditRan carries '==' with expected 1 and actual 0, minScore
\* '>=', maxLength and maxNumericValue '<=', and a kind-specific violation's
\* actual fails the kind's predicate against expected.
C2_OperatorMatchesName ==
    \A i \in 1..Len(ret) :
        /\ ret[i].name = "auditRan" =>
               ret[i].operator = "==" /\ ret[i].expected = 1 /\ ret[i].actual = 0
        /\ ret[i].name = "minScore" => ret[i].operator = ">="
        /\ ret[i].name \in {"maxLength", "maxNumericValue"} => ret[i].operator = "<="
        /\ ret[i].name # "auditRan" =>
               ~StatedPasses(ret[i].name, ret[i].actual, ret[i].expected)

AtReturn == pc = "done" /\ "lhrs" \in DOMAIN args

OtherFieldSet(options) ==
    \/ options.assertions # None
    \/ options.preset # None
    \/ options.budgetsFile # None
    \/ options.aggregationMethod # None
    \/ options.matchingUrlPattern # None

\* C3: a configuration with assertMatrix and any other top-level field
\* (assertions, preset, budgetsFile, aggregationMethod, matchingUrlPattern)
\* raises 'Cannot use assertMatrix with other options' and returns no result;
\* the matrix entries are evaluated only when assertMatrix is the only field.
C3_MatrixExcludesOtherFields ==
    /\ AtReturn /\ args.options.assertMatrix # None /\ OtherFieldSet(args.options)
         => threw = "Cannot use assertMatrix with other options" /\ ret = <<>>
    /\ args.options.assertMatrix # None /\ pc \in {"resolve", "assert"}
         => ~OtherFieldSet(args.options)

InvalidKeys == {"resource-summary.script", "categories.performance.score"}

KeysOf(options) ==
    IF options.assertions = None THEN {}
    ELSE {Get(options.assertions)[i].key : i \in 1..Len(Get(options.assertions))}

\* A configuration none of section 7's configuration errors applies to.
WellFormed(options) ==
    IF options.assertMatrix # None
    THEN /\ ~OtherFieldSet(options)
         /\ \A i \in 1..Len(Get(options.assertMatrix)) :
                KeysOf(Get(options.assertMatrix)[i]) \cap InvalidKeys = {}
    ELSE KeysOf(options) \cap InvalidKeys = {}

\* C4: for a well-formed configuration, a report that lacks the asserted
\* audit (performance-budget, categories and resource-summary included) never
\* makes getAllAssertionResults raise: the call returns normally.
C4_MissingAuditNeverThrows ==
    AtReturn /\ WellFormed(args.options) => threw = ""

\* C9: when the effective aggregation mode of an assertion is median-run,
\* whatever the dispatch target, every resulting violation has a values
\* sequence of length 1 and, when kind-specific, its actual is that one value.
C9_MedianRunUsesRepresentative ==
    Evaluated /\ step.options.aggregationMethod = Some("median-run") =>
        \A i \in 1..Len(step.res) :
            /\ Len(step.res[i].values) = 1
            /\ step.res[i].name # "auditRan" => step.res[i].actual = step.res[i].values[1]

\* The entries of the resolved assertions mapping that name the audit being
\* asserted, whatever their casing.
EntriesNaming(assertionKey) ==
    {i \in 1..Len(resolved.assertions) :
        kebabCase(resolved.assertions[i].key) = assertionKey}

\* C10: an audit named by a key of the resolved assertions mapping whose
\* level is not off is evaluated, at the level of such a key, whatever the
\* casing of the key.
C10_KeysFoundWhateverTheCasing ==
    "toAssert" \in DOMAIN step =>
        LET naming == {i \in EntriesNaming(step.toAssert.assertionKey) :
                          resolved.assertions[i].value.level # "off"}
        IN  naming # {} =>
                /\ ~step.skipped
                /\ \E i \in naming : step.level = resolved.assertions[i].value.level

=============================================================================
